---- MODULE Spec2Model ----
(***************************************************************************)
(* usaspending-mcp: the tool gateway (three source variants of server.py) *)
(* and the transport helper (util.py), as a state machine of tool          *)
(* invocations.                                                            *)
(*                                                                         *)
(* Text is modelled as a sequence of tokens; the text itself is the        *)
(* concatenation of the tokens (Str).  A token is either one significant   *)
(* character ("/", ".", ":", "?", "#", ";", "{", ...) or a word that       *)
(* contains none of them.                                                  *)
(***************************************************************************)
EXTENDS Integers, Sequences, FiniteSets, TLC

\* How many tool calls one invocation slot serves, one after the other.
MaxCalls == 2

(***************************************************************************)
(* Sequence helpers                                                        *)
(***************************************************************************)
RECURSIVE Str(_)
Str(toks) == IF toks = <<>> THEN "" ELSE Head(toks) \o Str(Tail(toks))

\* str.find: the first position of tok in s at or after position from, 0 if none
RECURSIVE FindFrom(_, _, _)
FindFrom(s, tok, from) ==
    IF from > Len(s) THEN 0
    ELSE IF s[from] = tok THEN from
    ELSE FindFrom(s, tok, from + 1)

Find(s, tok) == FindFrom(s, tok, 1)

\* str.rfind: the last position of tok in s, 0 if none
RECURSIVE RFindFrom(_, _, _)
RFindFrom(s, tok, from) ==
    IF from < 1 THEN 0
    ELSE IF s[from] = tok THEN from
    ELSE RFindFrom(s, tok, from - 1)

RFind(s, tok) == RFindFrom(s, tok, Len(s))

Prefix(s, n) == SubSeq(s, 1, n)
Suffix(s, n) == SubSeq(s, n, Len(s))

\* str.split(sep): the pieces between the separators (always at least one)
RECURSIVE Split(_, _)
Split(s, sep) ==
    LET i == Find(s, sep)
    IN  IF i = 0 THEN <<s>>
        ELSE <<Prefix(s, i - 1)>> \o Split(Suffix(s, i + 1), sep)

\* sep.join(parts)
RECURSIVE Join(_, _)
Join(parts, sep) ==
    IF parts = <<>> THEN <<>>
    ELSE IF Len(parts) = 1 THEN parts[1]
    ELSE parts[1] \o <<sep>> \o Join(Tail(parts), sep)

\* filter(None, parts): drop the empty pieces
RECURSIVE FilterNonEmpty(_)
FilterNonEmpty(parts) ==
    IF parts = <<>> THEN <<>>
    ELSE IF Head(parts) = <<>> THEN FilterNonEmpty(Tail(parts))
    ELSE <<Head(parts)>> \o FilterNonEmpty(Tail(parts))

(***************************************************************************)
(* urllib.parse as the servers use it: urljoin(BASE_URL, ...)              *)
(***************************************************************************)
\* Words made of scheme characters only (letters, digits, "+", "-"), starting
\* with a letter, in lower case.
SchemeWords == {"https", "http", "ftp", "api", "usaspending", "gov", "v2",
                "awards", "evil", "com", "x"}
SchemeCharToks == SchemeWords \cup {"+", "-", "."}

uses_relative == {<<>>, <<"ftp">>, <<"http">>, <<"https">>}
uses_netloc == {<<>>, <<"ftp">>, <<"http">>, <<"https">>}
uses_params == {<<>>, <<"ftp">>, <<"http">>, <<"https">>}

\* url[:i] and url[i+1:] for i = url.find(tok); the whole and nothing if absent
Before(s, tok) == IF Find(s, tok) > 0 THEN Prefix(s, Find(s, tok) - 1) ELSE s
After(s, tok) == IF Find(s, tok) > 0 THEN Suffix(s, Find(s, tok) + 1) ELSE <<>>

\* the earliest of "/", "?", "#" at or after start ends the netloc
NetlocEnd(url, start) ==
    LET ds == {d \in {FindFrom(url, c, start) : c \in {"/", "?", "#"}} : d > 0}
    IN  IF ds = {} THEN Len(url) + 1
        ELSE CHOOSE d \in ds : \A e \in ds : d <= e

_splitnetloc(url, start) ==
    [netloc |-> SubSeq(url, start, NetlocEnd(url, start) - 1),
     rest |-> Suffix(url, NetlocEnd(url, start))]

\* urlsplit after the scheme and the netloc are taken off: fragment, then query
urlsplit_rest(scheme, netloc, url) ==
    [scheme |-> scheme, netloc |-> netloc,
     path |-> Before(Before(url, "#"), "?"),
     query |-> After(Before(url, "#"), "?"),
     fragment |-> After(url, "#")]

\* urlsplit after the scheme is taken off: "//" starts a netloc
urlsplit_netloc(scheme, url) ==
    IF Len(url) >= 2 /\ Prefix(url, 2) = <<"/", "/">>
    THEN urlsplit_rest(scheme, _splitnetloc(url, 3).netloc, _splitnetloc(url, 3).rest)
    ELSE urlsplit_rest(scheme, <<>>, url)

\* url[:i] is a scheme: i > 0, a letter first, scheme characters only
HasScheme(url) ==
    /\ Find(url, ":") > 1
    /\ url[1] \in SchemeWords
    /\ \A k \in 1..(Find(url, ":") - 1) : url[k] \in SchemeCharToks

urlsplit(url, scheme) ==
    IF HasScheme(url)
    THEN urlsplit_netloc(Before(url, ":"), After(url, ":"))
    ELSE urlsplit_netloc(scheme, url)

\* url[:i], url[i+1:] for the index i of a ";" that was found
_splitparams_at(url, i) ==
    [path |-> Prefix(url, i - 1), params |-> Suffix(url, i + 1)]

\* url[:-1]: the text without its last character.  A token is a run of
\* characters, so the last token loses its last character (and goes when
\* nothing of it is left).
DropLastChar(url) ==
    IF url = <<>> THEN <<>>
    ELSE IF Len(url[Len(url)]) <= 1 THEN SubSeq(url, 1, Len(url) - 1)
    ELSE SubSeq(url, 1, Len(url) - 1)
         \o <<SubSeq(url[Len(url)], 1, Len(url[Len(url)]) - 1)>>

\* Only the branch for a url with "/" returns early when no ";" is found;
\* the other uses the -1 of find as an index: url[:-1], url[0:].
_splitparams(url) ==
    IF Find(url, "/") > 0
    THEN IF FindFrom(url, ";", RFind(url, "/")) = 0
         THEN [path |-> url, params |-> <<>>]
         ELSE _splitparams_at(url, FindFrom(url, ";", RFind(url, "/")))
    ELSE IF Find(url, ";") = 0
         THEN [path |-> DropLastChar(url), params |-> url]
         ELSE _splitparams_at(url, Find(url, ";"))

urlparse_params(s) ==
    IF s.scheme \in uses_params /\ Find(s.path, ";") > 0
    THEN [scheme |-> s.scheme, netloc |-> s.netloc,
          path |-> _splitparams(s.path).path,
          params |-> _splitparams(s.path).params,
          query |-> s.query, fragment |-> s.fragment]
    ELSE [scheme |-> s.scheme, netloc |-> s.netloc, path |-> s.path,
          params |-> <<>>, query |-> s.query, fragment |-> s.fragment]

urlparse(url, scheme) == urlparse_params(urlsplit(url, scheme))

urlunsplit(scheme, netloc, url, query, fragment) ==
    (IF scheme # <<>> THEN scheme \o <<":">> ELSE <<>>)
    \o (IF \/ netloc # <<>>
           \/ /\ scheme # <<>>
              /\ scheme \in uses_netloc
              /\ ~(Len(url) >= 2 /\ Prefix(url, 2) = <<"/", "/">>)
        THEN <<"/", "/">> \o netloc
             \o (IF url # <<>> /\ url[1] # "/" THEN <<"/">> ELSE <<>>)
        ELSE <<>>)
    \o url
    \o (IF query # <<>> THEN <<"?">> \o query ELSE <<>>)
    \o (IF fragment # <<>> THEN <<"#">> \o fragment ELSE <<>>)

urlunparse(scheme, netloc, url, params, query, fragment) ==
    urlunsplit(scheme, netloc,
               IF params # <<>> THEN url \o <<";">> \o params ELSE url,
               query, fragment)

\* the loop over segments of urljoin: ".." pops, "." is skipped
RECURSIVE ResolveSegments(_, _)
ResolveSegments(segments, resolved) ==
    IF segments = <<>> THEN resolved
    ELSE IF Head(segments) = <<".", ".">>
    THEN ResolveSegments(Tail(segments),
            IF resolved = <<>> THEN <<>> ELSE Prefix(resolved, Len(resolved) - 1))
    ELSE IF Head(segments) = <<".">>
    THEN ResolveSegments(Tail(segments), resolved)
    ELSE ResolveSegments(Tail(segments), Append(resolved, Head(segments)))

\* base_parts: the base path's pieces without a last piece that is no directory
BaseParts(parts) ==
    IF parts[Len(parts)] # <<>> THEN Prefix(parts, Len(parts) - 1) ELSE parts

\* segments[1:-1] = filter(None, segments[1:-1])
FilterMiddle(segments) ==
    IF Len(segments) <= 2 THEN segments
    ELSE <<segments[1]>>
         \o FilterNonEmpty(SubSeq(segments, 2, Len(segments) - 1))
         \o <<segments[Len(segments)]>>

Segments(bpath, path) ==
    IF path # <<>> /\ path[1] = "/" THEN Split(path, "/")
    ELSE FilterMiddle(BaseParts(Split(bpath, "/")) \o Split(path, "/"))

\* '/'.join(resolved_path) or '/', a last "." or ".." leaving a trailing "/"
ResolvedPath(segments) ==
    LET joined == Join(
            IF segments[Len(segments)] \in {<<".">>, <<".", ".">>}
            THEN Append(ResolveSegments(segments, <<>>), <<>>)
            ELSE ResolveSegments(segments, <<>>), "/")
    IN  IF joined = <<>> THEN <<"/">> ELSE joined

\* urljoin once base and url are parsed (b, u)
urljoin_parsed(url, b, u) ==
    IF u.scheme # b.scheme \/ u.scheme \notin uses_relative THEN url
    ELSE IF u.scheme \in uses_netloc /\ u.netloc # <<>>
    THEN urlunparse(u.scheme, u.netloc, u.path, u.params, u.query, u.fragment)
    ELSE IF u.path = <<>> /\ u.params = <<>>
    THEN urlunparse(u.scheme, b.netloc, b.path, b.params,
                    IF u.query = <<>> THEN b.query ELSE u.query, u.fragment)
    ELSE urlunparse(u.scheme, b.netloc, ResolvedPath(Segments(b.path, u.path)),
                    u.params, u.query, u.fragment)

urljoin(base, url) ==
    IF base = <<>> THEN url
    ELSE IF url = <<>> THEN base
    ELSE urljoin_parsed(url, urlparse(base, <<>>),
                        urlparse(url, urlparse(base, <<>>).scheme))

(***************************************************************************)
(* JSON: httpx Response.json() is json.loads of the body text              *)
(***************************************************************************)
\* The string and number literals a body may contain, with their values.
StringTok ==
    ("\"results\"" :> "results") @@ ("\"agency_id\"" :> "agency_id")
    @@ ("\"Recipient Name\"" :> "Recipient Name") @@ ("\"ACME\"" :> "ACME")
    @@ ("\"Award ID\"" :> "Award ID") @@ ("\"detail\"" :> "detail")
    @@ ("\"internal_id\"" :> "internal_id")
    @@ ("\"Description\"" :> "Description")
    @@ ("\"Award Amount\"" :> "Award Amount")
    @@ ("\"Total Outlays\"" :> "Total Outlays")
    @@ ("\"Awarding Agency\"" :> "Awarding Agency")
    @@ ("\"Awarding Sub Agency\"" :> "Awarding Sub Agency")
    @@ ("\"Start Date\"" :> "Start Date") @@ ("\"End Date\"" :> "End Date")
    @@ ("\"awarding_agency_id\"" :> "awarding_agency_id")
    @@ ("\"generated_internal_id\"" :> "generated_internal_id")
NumberTok == ("1" :> 1) @@ ("2" :> 2) @@ ("500" :> 500)

\* Parsed JSON values.  A dict keeps its keys in insertion order.
JNull == [kind |-> "null", v |-> <<>>]
JStr(s) == [kind |-> "str", v |-> s]
JNum(n) == [kind |-> "num", v |-> n]
JArr(elems) == [kind |-> "arr", v |-> elems]
JObj(items) == [kind |-> "obj", v |-> items]

HasKey(items, k) == \E j \in 1..Len(items) : items[j].k = k
Get(items, k) == items[CHOOSE j \in 1..Len(items) : items[j].k = k].v

\* d[k] = v on a dict: a key already there keeps its place and takes the new value
DictSet(items, k, val) ==
    IF HasKey(items, k)
    THEN [j \in 1..Len(items) |->
            IF items[j].k = k THEN [k |-> k, v |-> val] ELSE items[j]]
    ELSE Append(items, [k |-> k, v |-> val])

ParseFail == [ok |-> FALSE, val |-> JNull, rest |-> <<>>]
ParseOk(val, rest) == [ok |-> TRUE, val |-> val, rest |-> rest]

RECURSIVE ParseValue(_), ParseElems(_, _), ParseMembers(_, _)
ParseValue(t) ==
    IF t = <<>> THEN ParseFail
    ELSE LET h == Head(t)
         IN  IF h \in DOMAIN StringTok THEN ParseOk(JStr(StringTok[h]), Tail(t))
             ELSE IF h \in DOMAIN NumberTok THEN ParseOk(JNum(NumberTok[h]), Tail(t))
             ELSE IF h = "null" THEN ParseOk(JNull, Tail(t))
             ELSE IF h = "["
             THEN IF Len(t) >= 2 /\ t[2] = "]"
                  THEN ParseOk(JArr(<<>>), Suffix(t, 3))
                  ELSE ParseElems(Tail(t), <<>>)
             ELSE IF h = "{"
             THEN IF Len(t) >= 2 /\ t[2] = "}"
                  THEN ParseOk(JObj(<<>>), Suffix(t, 3))
                  ELSE ParseMembers(Tail(t), <<>>)
             ELSE ParseFail

ParseElems(t, acc) ==
    LET r == ParseValue(t)
    IN  IF ~r.ok \/ r.rest = <<>> THEN ParseFail
        ELSE IF Head(r.rest) = ","
        THEN ParseElems(Tail(r.rest), Append(acc, r.val))
        ELSE IF Head(r.rest) = "]"
        THEN ParseOk(JArr(Append(acc, r.val)), Tail(r.rest))
        ELSE ParseFail

ParseMembers(t, acc) ==
    IF Len(t) < 3 \/ t[1] \notin DOMAIN StringTok \/ t[2] # ":" THEN ParseFail
    ELSE LET r == ParseValue(Suffix(t, 3))
             items == DictSet(acc, StringTok[t[1]], r.val)
         IN  IF ~r.ok \/ r.rest = <<>> THEN ParseFail
             ELSE IF Head(r.rest) = ","
             THEN ParseMembers(Tail(r.rest), items)
             ELSE IF Head(r.rest) = "}"
             THEN ParseOk(JObj(items), Tail(r.rest))
             ELSE ParseFail

\* json.loads: the whole text must be one value; otherwise JSONDecodeError
json_loads(t) ==
    LET r == ParseValue(t)
    IN  IF r.ok /\ r.rest = <<>> THEN ParseOk(r.val, <<>>) ELSE ParseFail

(***************************************************************************)
(* Outcomes of a tool invocation                                           *)
(***************************************************************************)
NoResult == [kind |-> "none", v |-> <<>>]
NoError == [exc |-> "", code |-> "", message |-> <<>>]

\* an exception that leaves the tool function as it was raised
RawError(name) == [exc |-> name, code |-> "", message |-> <<>>]

\* McpError(ErrorData(code=..., message=...))
McpError(code, message) == [exc |-> "McpError", code |-> code, message |-> message]

Completed(result) == [pc |-> "completed", result |-> result, error |-> NoError]
Failed(error) == [pc |-> "failed", result |-> NoResult, error |-> error]

(***************************************************************************)
(* pydantic models of the servers (pydantic 2, which the mcp package       *)
(* requires: a field declared without a default is required, an            *)
(* Optional[...] one may be null but not absent)                           *)
(***************************************************************************)
\* An argument is <<>> when the caller left it out and <<value>> when given.
AwardsByAgencyAndFyArgs(args) == args.year # <<>> /\ args.agency_id # <<>>

AwardDetailArgs(args) == args.generated_unique_award_id # <<>>

KeywordSearchArgs(args) == args.keywords # <<>> /\ args.year # <<>>

\* goostr: search_award_by_keyword(keyword: str, year: int)
goostr_search_args(args) == args.keyword # <<>> /\ args.year # <<>>

KeywordSearchResponseFields == <<
    [name |-> "internal_id", alias |-> "internal_id", type |-> "num", optional |-> TRUE],
    [name |-> "description", alias |-> "Description", type |-> "str", optional |-> TRUE],
    [name |-> "award_id", alias |-> "Award ID", type |-> "str", optional |-> TRUE],
    [name |-> "recipient_name", alias |-> "Recipient Name", type |-> "str", optional |-> FALSE],
    [name |-> "award_amount", alias |-> "Award Amount", type |-> "num", optional |-> TRUE],
    [name |-> "total_outlays", alias |-> "Total Outlays", type |-> "num", optional |-> TRUE],
    [name |-> "awarding_agency", alias |-> "Awarding Agency", type |-> "str", optional |-> TRUE],
    [name |-> "awarding_subagency", alias |-> "Awarding Sub Agency", type |-> "str", optional |-> TRUE],
    [name |-> "start_date", alias |-> "Start Date", type |-> "str", optional |-> TRUE],
    [name |-> "end_date", alias |-> "End Date", type |-> "str", optional |-> TRUE],
    [name |-> "awarding_agency_id", alias |-> "awarding_agency_id", type |-> "num", optional |-> TRUE],
    [name |-> "generated_unique_award_id", alias |-> "generated_internal_id", type |-> "str", optional |-> TRUE] >>

\* one field of KeywordSearchResponse(**i): looked up by its alias, required
\* (no field declares a default), null only where Optional
FieldValid(f, items) ==
    /\ HasKey(items, f.alias)
    /\ LET val == Get(items, f.alias)
       IN  IF val.kind = "null" THEN f.optional ELSE val.kind = f.type

\* KeywordSearchResponse(**i)
KeywordSearchResponse(i) ==
    IF i.kind # "obj" THEN [ok |-> FALSE, exc |-> "TypeError", model |-> NoResult]
    ELSE IF \A n \in 1..Len(KeywordSearchResponseFields) :
                FieldValid(KeywordSearchResponseFields[n], i.v)
    THEN [ok |-> TRUE, exc |-> "",
          model |-> [kind |-> "model",
                     v |-> [n \in 1..Len(KeywordSearchResponseFields) |->
                              [k |-> KeywordSearchResponseFields[n].name,
                               v |-> Get(i.v, KeywordSearchResponseFields[n].alias)]]]]
    ELSE [ok |-> FALSE, exc |-> "ValidationError", model |-> NoResult]

(***************************************************************************)
(* util.py: the transport helper                                           *)
(***************************************************************************)
NoJson == [kind |-> "none"]

\* The requests one call of the helper puts on the wire.
async_http_get(url) == <<[method |-> "GET", url |-> url, json |-> NoJson]>>

\* a helper that sends the request a second time
async_http_post_retry(url, json) ==
    <<[method |-> "POST", url |-> url, json |-> json],
      [method |-> "POST", url |-> url, json |-> json]>>

async_http_post(url, json) == <<[method |-> "POST", url |-> url, json |-> json]>>

NoException ==
    [class |-> "", name |-> "", message |-> <<>>, url |-> <<>>, status_code |-> 0]
NoResponse == [kind |-> "none", status_code |-> 0, body |-> <<>>]

\* What "return await client.get(...)" / "client.post(...)" gives for the
\* answer of the network: the response whatever its status (the helper never
\* calls raise_for_status), or the httpx.RequestError of a transport failure.
client_send(request, answer) ==
    IF answer.kind = "response"
    THEN [raised |-> FALSE, response |-> answer, exc |-> NoException]
    ELSE [raised |-> TRUE, response |-> NoResponse,
          exc |-> [class |-> "RequestError", name |-> answer.exc,
                   message |-> answer.message,
                   url |-> request.url, status_code |-> 0]]

\* httpx Response.json()
response_json(response) == json_loads(response.body)

(***************************************************************************)
(* server.py: the tools.  variant names the source file:                   *)
(*   "usaspending_mcp"  src/src/usaspending_mcp/server.py                  *)
(*   "src_server"       src/src/server.py                                  *)
(*   "goostr"           src/goostr/server.py                               *)
(* Each tool is its part before the await of the helper (X_call: the       *)
(* requests it has the helper send, or the exception raised before) and    *)
(* its part after (X_return: what the invocation ends with).               *)
(***************************************************************************)
Variants == {"usaspending_mcp", "src_server", "goostr"}
Tools == {"GetSpendingAwardsByAgencyId", "GetAwardInfoByAwardId",
          "SearchByKeywords", "GetAgencies"}

Tok_api == <<"https", ":", "/", "/", "api", ".", "usaspending", ".", "gov",
             "/", "api", "/", "v2", "/">>
SPENDING_URL == Tok_api \o <<"spending", "/">>
BASE_URL == Tok_api \o <<"awards", "/">>
SEARCH_URL == Tok_api \o <<"search", "/", "spending_by_award", "/">>
AGENCIES_URL == Tok_api \o <<"references", "/", "toptier_agencies", "/">>

Sending(requests) == [raised |-> FALSE, exc |-> "", requests |-> requests]
Raising(exc) == [raised |-> TRUE, exc |-> exc, requests |-> <<>>]

\* except httpx.HTTPStatusError as e: raise McpError(...)
except_HTTPStatusError(e) ==
    McpError("INTERNAL_ERROR",
             <<"Received ", ToString(e.status_code),
               " from usaspending.gov while requesting ", Str(e.url)>>)

\* repr of a str: in double quotes when it holds ' and no ", else in single
\* quotes with ' escaped; a backslash is doubled.  (Texts here are printable.)
str_repr_quote(text) ==
    IF Find(text, "'") > 0 /\ Find(text, "\"") = 0 THEN "\"" ELSE "'"

str_repr_escape(text, quote) ==
    [k \in 1..Len(text) |->
        IF text[k] = "\\" THEN "\\\\"
        ELSE IF text[k] = quote THEN "\\" \o quote
        ELSE text[k]]

str_repr(text) ==
    <<str_repr_quote(text)>> \o str_repr_escape(text, str_repr_quote(text))
    \o <<str_repr_quote(text)>>

\* {e!r}: BaseException.__repr__ of an exception made with one argument, the
\* message (httpx.RequestError.__init__ passes it on): ClassName('message')
exception_repr(e) == <<e.name, "(">> \o str_repr(e.message) \o <<")">>

\* except httpx.RequestError as e: raise McpError(...)
except_RequestError(e) ==
    McpError("INTERNAL_ERROR",
             <<"Error while requesting ", Str(e.url), ". Http Error: ",
               Str(exception_repr(e))>>)

\* the two except clauses shared by every tool
except_clauses(e) ==
    IF e.class = "HTTPStatusError" THEN Failed(except_HTTPStatusError(e))
    ELSE IF e.class = "RequestError" THEN Failed(except_RequestError(e))
    ELSE Failed(RawError(e.name))

\* try: response = await helper(...); return response.json()  except ...
return_response_json(out) ==
    IF out.raised THEN except_clauses(out.exc)
    ELSE LET r == response_json(out.response)
         IN  IF r.ok THEN Completed(r.val) ELSE Failed(RawError("JSONDecodeError"))

get_gov_spending_by_fiscal_year_call(variant, args) ==
    Sending(async_http_post(SPENDING_URL,
        [type |-> "award",
         filters |-> [fy |-> args.year[1], period |-> "12",
                      agency |-> args.agency_id[1]]]))

get_gov_spending_by_fiscal_year_return(variant, out) == return_response_json(out)

\* usaspending_mcp, src_server: URL = urljoin(BASE_URL, f"{id}/")
get_award_info_URL(generated_unique_award_id) ==
    urljoin(BASE_URL, generated_unique_award_id \o <<"/">>)

\* goostr: URL = urljoin(BASE_URL, f"{id}")
goostr_get_award_info_URL(generated_unique_award_id) ==
    urljoin(BASE_URL, generated_unique_award_id)

get_award_info_call(variant, args) ==
    Sending(async_http_get(
        IF variant = "goostr"
        THEN goostr_get_award_info_URL(args.generated_unique_award_id[1])
        ELSE get_award_info_URL(args.generated_unique_award_id[1])))

get_award_info_return(variant, out) == return_response_json(out)

get_us_agencies_call(variant, args) == Sending(async_http_get(AGENCIES_URL))

\* a tool that returns the "results" member instead of the whole object
get_us_agencies_return_results(variant, out) ==
    IF out.raised THEN except_clauses(out.exc)
    ELSE IF ~response_json(out.response).ok THEN Failed(RawError("JSONDecodeError"))
    ELSE IF /\ response_json(out.response).val.kind = "obj"
            /\ HasKey(response_json(out.response).val.v, "results")
    THEN Completed(Get(response_json(out.response).val.v, "results"))
    ELSE Completed(response_json(out.response).val)

get_us_agencies_return(variant, out) == return_response_json(out)

\* datetime(year=..., month=..., day=...): ValueError outside MINYEAR..MAXYEAR
datetime_ok(year) == year >= 1 /\ year <= 9999

\* strftime("%Y-%m-%d") of the C library: %Y is the year without padding
Pad2(n) == IF n < 10 THEN "0" \o ToString(n) ELSE ToString(n)
strftime_Ymd(year, month, day) ==
    ToString(year) \o "-" \o Pad2(month) \o "-" \o Pad2(day)

\* goostr: keyword.replace(" ", "").split(",")
goostr_keywords(keyword) == Split(SelectSeq(keyword, LAMBDA t : t # " "), ",")

\* the "keywords" filter: goostr splits its keyword string, the others pass
\* args.keywords on
search_keywords(variant, args) ==
    IF variant = "goostr" THEN goostr_keywords(args.keyword[1])
    ELSE args.keywords[1]

search_award_by_keyword_call(variant, args) ==
    IF ~datetime_ok(args.year[1]) THEN Raising("ValueError")
    ELSE Sending(async_http_post(SEARCH_URL,
        [filters |->
            [keywords |-> search_keywords(variant, args),
             time_period |-> <<[start_date |-> strftime_Ymd(args.year[1], 1, 1),
                                end_date |-> strftime_Ymd(args.year[1], 12, 31)]>>,
             award_type_codes |-> <<"A", "B", "C", "D">>],
         fields |-> <<"Award ID", "Recipient Name", "Award Amount",
                      "Total Outlays", "Description", "Contract Award Type",
                      "def_codes", "COVID-19 Obligations", "COVID-19 Outlays",
                      "Infrastructure Obligations", "Infrastructure Outlays",
                      "Awarding Agency", "Awarding Sub Agency", "Start Date",
                      "End Date", "recipient_id", "prime_award_recipient_id">>,
         page |-> 1, limit |-> 20, sort |-> "Award Amount", order |-> "desc",
         subawards |-> FALSE]))

\* [KeywordSearchResponse(**i) for i in mapped]: the first element that
\* fails ends the comprehension with its exception
RECURSIVE MapResults(_, _)
MapResults(mapped, acc) ==
    IF mapped = <<>> THEN Completed([kind |-> "list", v |-> acc])
    ELSE LET m == KeywordSearchResponse(Head(mapped))
         IN  IF m.ok THEN MapResults(Tail(mapped), Append(acc, m.model))
             ELSE Failed(RawError(m.exc))

\* what "for i in mapped" iterates over: a list's elements, a dict's keys,
\* a string's characters (modelled as the string itself)
IterOf(val) ==
    IF val.kind = "arr" THEN val.v
    ELSE IF val.kind = "obj" THEN [j \in 1..Len(val.v) |-> JStr(val.v[j].k)]
    ELSE <<val>>

\* usaspending_mcp: mapped = response.json().get("results", []);
\* return [KeywordSearchResponse(**i) for i in mapped]
search_award_by_keyword_mapped(out) ==
    IF out.raised THEN except_clauses(out.exc)
    ELSE LET r == response_json(out.response)
         IN  IF ~r.ok THEN Failed(RawError("JSONDecodeError"))
             ELSE IF r.val.kind # "obj" THEN Failed(RawError("AttributeError"))
             ELSE LET mapped == IF HasKey(r.val.v, "results")
                                THEN Get(r.val.v, "results") ELSE JArr(<<>>)
                  IN  IF mapped.kind \in {"num", "null"}
                      THEN Failed(RawError("TypeError"))
                      ELSE MapResults(IterOf(mapped), <<>>)

\* src_server and goostr return response.json() as the other tools do
search_award_by_keyword_return(variant, out) ==
    IF variant = "usaspending_mcp" THEN search_award_by_keyword_mapped(out)
    ELSE return_response_json(out)

\* the argument model the framework validates the call against
ArgsValid(variant, tool, args) ==
    CASE tool = "GetSpendingAwardsByAgencyId" -> AwardsByAgencyAndFyArgs(args)
      [] tool = "GetAwardInfoByAwardId" -> AwardDetailArgs(args)
      [] tool = "SearchByKeywords" ->
            IF variant = "goostr" THEN goostr_search_args(args)
            ELSE KeywordSearchArgs(args)
      [] tool = "GetAgencies" -> TRUE

ToolCall(variant, tool, args) ==
    CASE tool = "GetSpendingAwardsByAgencyId" ->
            get_gov_spending_by_fiscal_year_call(variant, args)
      [] tool = "GetAwardInfoByAwardId" -> get_award_info_call(variant, args)
      [] tool = "SearchByKeywords" -> search_award_by_keyword_call(variant, args)
      [] tool = "GetAgencies" -> get_us_agencies_call(variant, args)

ToolReturn(variant, tool, out) ==
    CASE tool = "GetSpendingAwardsByAgencyId" ->
            get_gov_spending_by_fiscal_year_return(variant, out)
      [] tool = "GetAwardInfoByAwardId" -> get_award_info_return(variant, out)
      [] tool = "SearchByKeywords" -> search_award_by_keyword_return(variant, out)
      [] tool = "GetAgencies" -> get_us_agencies_return(variant, out)

(***************************************************************************)
(* Inputs: the arguments of a call and the answers of the upstream         *)
(***************************************************************************)
Opt(S) == {<<>>} \cup {<<x>> : x \in S}

AwardIds == {<<>>, <<"CONT_AWD_X1">>, <<"/", "x">>, <<".", ".">>,
             <<"x", "?", "x">>, <<"/", "/", "evil", ".", "com", "/", "x">>,
             <<"http", ":", "/", "/", "evil", ".", "com", "/", "x">>}
Years == {0, 1, 999, 1000, 2023, 9999, 10000}
KeywordLists == {<<>>, <<<<"nasa">>>>, <<<<"nasa">>, <<"moon", " ", "base">>>>}
KeywordStrings == {<<>>, <<"nasa">>, <<"nasa", ",", " ", "moon">>}

ArgsOf(variant, tool) ==
    CASE tool = "GetSpendingAwardsByAgencyId" ->
            [year : Opt({"", "2023"}), agency_id : Opt({"", "097"})]
      [] tool = "GetAwardInfoByAwardId" ->
            [generated_unique_award_id : Opt(AwardIds)]
      [] tool = "SearchByKeywords" ->
            IF variant = "goostr"
            THEN [keyword : Opt(KeywordStrings), year : Opt(Years)]
            ELSE [keywords : Opt(KeywordLists), year : Opt(Years)]
      [] tool = "GetAgencies" -> {<<>>}

Entry_onlyname == <<"{", "\"Recipient Name\"", ":", "\"ACME\"", "}">>
Entry_rest ==
    <<"\"internal_id\"", ":", "1", ",", "\"Description\"", ":", "null", ",",
      "\"Award ID\"", ":", "\"ACME\"", ",", "\"Award Amount\"", ":", "500", ",",
      "\"Total Outlays\"", ":", "null", ",", "\"Awarding Agency\"", ":", "null",
      ",", "\"Awarding Sub Agency\"", ":", "null", ",", "\"Start Date\"", ":",
      "null", ",", "\"End Date\"", ":", "null", ",", "\"awarding_agency_id\"",
      ":", "2", ",", "\"generated_internal_id\"", ":", "\"ACME\"">>
Entry_full ==
    <<"{", "\"Recipient Name\"", ":", "\"ACME\"", ",">> \o Entry_rest \o <<"}">>
Entry_noname == <<"{">> \o Entry_rest \o <<"}">>
Entry_nullname ==
    <<"{", "\"Recipient Name\"", ":", "null", ",">> \o Entry_rest \o <<"}">>

Results(entries) == <<"{", "\"results\"", ":", "[">> \o entries \o <<"]", "}">>

Body_agencies == Results(<<"{", "\"agency_id\"", ":", "1", "}">>)
Body_onlyname == Results(Entry_onlyname)
Body_full == Results(Entry_full)
Body_mixed == Results(Entry_full \o <<",">> \o Entry_noname)
Body_nullname == Results(Entry_nullname)
Body_detail == <<"{", "\"detail\"", ":", "\"ACME\"", "}">>
Body_list == <<"[", "1", "]">>
Body_resultsnull == <<"{", "\"results\"", ":", "null", "}">>
Body_html == <<"<html>">>
Body_empty == <<>>

Bodies == {Body_agencies, Body_onlyname, Body_full, Body_mixed, Body_nullname,
           Body_detail, Body_list, Body_resultsnull, Body_html, Body_empty}
Statuses == {200, 404, 500}
TransportFailures ==
    {[name |-> "ConnectError", message |-> <<"All connection attempts failed">>],
     [name |-> "ReadTimeout", message |-> <<>>],
     [name |-> "ConnectError",
      message |-> <<"certificate is not valid for ", "'", "api.usaspending.gov",
                    "'">>]}

NoAnswer ==
    [kind |-> "none", status_code |-> 0, body |-> <<>>, exc |-> "",
     message |-> <<>>]
ResponseAnswer(status, body) ==
    [kind |-> "response", status_code |-> status, body |-> body, exc |-> "",
     message |-> <<>>]
FailureAnswer(exc) ==
    [kind |-> "error", status_code |-> 0, body |-> <<>>, exc |-> exc.name,
     message |-> exc.message]

(***************************************************************************)
(* util.py: the client of one helper call                                  *)
(***************************************************************************)
\* httpx.AsyncClient(): a new client object, the (n+1)th the process makes
AsyncClient(n) == n + 1

\* "async with ... as client": entering opens the client
async_with_enter(open, client) == open \cup {client}

\* an exit that leaves the client open
async_with_exit_leak(open, client) == open

\* "async with ... as client": leaving the block, by return or by exception,
\* closes the client
async_with_exit(open, client) == open \ {client}

(***************************************************************************)
(* State                                                                   *)
(***************************************************************************)
VARIABLES
    inv,      \* slot -> the invocation it serves: position, call, outcome
    clients,  \* the httpx.AsyncClient objects that are open
    opened,   \* how many clients were ever opened
    used,     \* history: which call of which slot sent its request on which client
    mcp       \* the module-level tool registry: the names registered at import

vars == <<inv, clients, opened, used, mcp>>

Idle == [pc |-> "idle", variant |-> "", tool |-> "", args |-> <<>>,
         calls |-> 0, requests |-> <<>>, answer |-> NoAnswer,
         result |-> NoResult, error |-> NoError, client |-> 0]

InitSlots(slots) ==
    /\ inv = [i \in slots |-> Idle]
    /\ clients = {}
    /\ opened = 0
    /\ used = {}
    /\ mcp = Tools

Init == InitSlots({1})

\* A caller invokes a registered tool.  The framework validates the arguments
\* against the tool's argument model; then the tool runs up to the await
\* inside the helper, which has opened its client and sent the request.
Call(i, variant, tool, args) ==
    /\ inv[i].pc = "idle"
    /\ inv[i].calls < MaxCalls
    /\ tool \in mcp
    /\ UNCHANGED mcp
    /\ LET started == [inv[i] EXCEPT !.variant = variant, !.tool = tool,
                                     !.args = args, !.calls = @ + 1]
       IN  IF ~ArgsValid(variant, tool, args)
           THEN /\ inv' = [inv EXCEPT ![i] =
                            [started EXCEPT !.pc = "failed",
                                            !.error = RawError("ValidationError")]]
                /\ UNCHANGED <<clients, opened, used>>
           ELSE LET c == ToolCall(variant, tool, args)
                IN  IF c.raised
                    THEN /\ inv' = [inv EXCEPT ![i] =
                                     [started EXCEPT !.pc = "failed",
                                                     !.error = RawError(c.exc)]]
                         /\ UNCHANGED <<clients, opened, used>>
                    ELSE /\ inv' = [inv EXCEPT ![i] =
                                     [started EXCEPT !.pc = "awaiting",
                                                     !.requests = c.requests,
                                                     !.client = AsyncClient(opened)]]
                         /\ clients' = async_with_enter(clients, AsyncClient(opened))
                         /\ opened' = opened + 1
                         /\ used' = used \cup {[client |-> AsyncClient(opened),
                                                slot |-> i, call |-> started.calls]}

\* The upstream answers the request with a status and a body.
Respond(i, status, body) ==
    /\ inv[i].pc = "awaiting"
    /\ inv' = [inv EXCEPT ![i].pc = "ready",
                          ![i].answer = ResponseAnswer(status, body)]
    /\ UNCHANGED <<clients, opened, used, mcp>>

\* The connection is refused or times out.
TransportFail(i, exc) ==
    /\ inv[i].pc = "awaiting"
    /\ inv' = [inv EXCEPT ![i].pc = "ready", ![i].answer = FailureAnswer(exc)]
    /\ UNCHANGED <<clients, opened, used, mcp>>

\* Leaving the "async with" awaits client.__aexit__(): the client is marked
\* closed and, when a connection is still pooled (a response came over a
\* kept-alive connection), closing it yields to the event loop before the
\* helper returns.  The invocation is left with its answer, its client closed.
CloseClient(i) ==
    /\ inv[i].pc = "ready"
    /\ inv[i].answer.kind = "response"
    /\ inv[i].client \in clients
    /\ clients' = async_with_exit(clients, inv[i].client)
    /\ UNCHANGED <<inv, opened, used, mcp>>

\* an invocation that takes the answer from a variable shared with the others
Resume_shared(i) ==
    /\ inv[i].pc = "ready"
    /\ \E j \in DOMAIN inv :
         /\ inv[j].pc = "ready"
         /\ LET out == client_send(inv[i].requests[Len(inv[i].requests)],
                                   inv[j].answer)
                end == ToolReturn(inv[i].variant, inv[i].tool, out)
            IN  inv' = [inv EXCEPT ![i].pc = end.pc, ![i].result = end.result,
                                   ![i].error = end.error, ![i].client = 0]
    /\ clients' = async_with_exit(clients, inv[i].client)
    /\ UNCHANGED <<opened, used, mcp>>

\* The invocation resumes: the helper leaves its "async with" (the client is
\* closed, if the exit has not closed it in a step of its own) and returns or
\* raises; the tool runs to its end.
Resume(i) ==
    /\ inv[i].pc = "ready"
    /\ LET out == client_send(inv[i].requests[Len(inv[i].requests)], inv[i].answer)
           end == ToolReturn(inv[i].variant, inv[i].tool, out)
       IN  inv' = [inv EXCEPT ![i].pc = end.pc, ![i].result = end.result,
                              ![i].error = end.error, ![i].client = 0]
    /\ clients' = async_with_exit(clients, inv[i].client)
    /\ UNCHANGED <<opened, used, mcp>>

\* The outcome is handed to the caller; the slot is free for the next call.
Return(i) ==
    /\ inv[i].pc \in {"completed", "failed"}
    /\ inv' = [inv EXCEPT ![i] = [Idle EXCEPT !.calls = inv[i].calls]]
    /\ UNCHANGED <<clients, opened, used, mcp>>

CallTool ==
    \E i \in DOMAIN inv, variant \in Variants, tool \in Tools :
        \E args \in ArgsOf(variant, tool) : Call(i, variant, tool, args)

UpstreamResponds ==
    \E i \in DOMAIN inv, status \in Statuses, body \in Bodies :
        Respond(i, status, body)

UpstreamFails ==
    \E i \in DOMAIN inv, exc \in TransportFailures : TransportFail(i, exc)

ClientCloses == \E i \in DOMAIN inv : CloseClient(i)

ToolResumes == \E i \in DOMAIN inv : Resume(i)

ToolReturns == \E i \in DOMAIN inv : Return(i)

Next ==
    \/ CallTool
    \/ UpstreamResponds
    \/ UpstreamFails
    \/ ClientCloses
    \/ ToolResumes
    \/ ToolReturns

Spec == Init /\ [][Next]_vars

(***************************************************************************)
(* Concurrent invocations: several slots, each serving one call of the     *)
(* usaspending_mcp server, interleaved at the await of the helper.         *)
(***************************************************************************)
\* How many invocations run side by side.
NumSlots == 2

ConcArgsOf(tool) ==
    IF tool = "GetAwardInfoByAwardId"
    THEN [generated_unique_award_id : Opt({<<"CONT_AWD_X1">>})]
    ELSE {<<>>}

InitConc == InitSlots(1..NumSlots)

CallToolConc ==
    \E i \in DOMAIN inv, tool \in {"GetAgencies", "GetAwardInfoByAwardId"} :
        \E args \in ConcArgsOf(tool) : Call(i, "usaspending_mcp", tool, args)

UpstreamRespondsConc ==
    \E i \in DOMAIN inv :
        \/ Respond(i, 200, Body_agencies)
        \/ Respond(i, 500, Body_html)

UpstreamFailsConc ==
    \E i \in DOMAIN inv :
        TransportFail(i, [name |-> "ConnectError",
                          message |-> <<"All connection attempts failed">>])

NextConc ==
    \/ CallToolConc
    \/ UpstreamRespondsConc
    \/ UpstreamFailsConc
    \/ ClientCloses
    \/ ToolResumes

SpecConc == InitConc /\ [][NextConc]_vars

(***************************************************************************)
(* Properties                                                              *)
(***************************************************************************)
Finished(i) == inv[i].pc \in {"completed", "failed"}
Answered(i) == Finished(i) /\ inv[i].answer.kind = "response"
Refused(i) == Finished(i) /\ inv[i].answer.kind = "error"
Named == {"usaspending_mcp", "src_server"}
PassThroughTools == {"GetAgencies", "GetSpendingAwardsByAgencyId",
                     "GetAwardInfoByAwardId"}

\* the error a status failure is to end with: status code and requested URL
StatusErrorFor(i) ==
    except_HTTPStatusError([class |-> "HTTPStatusError", name |-> "HTTPStatusError",
                            url |-> inv[i].requests[1].url,
                            status_code |-> inv[i].answer.status_code])

\* C1: for each of the four tools, an upstream answer with a non-2xx status
\* ends the invocation failed, with the status error that records the status
\* code and the requested URL; it never completes with the body as result.
C1_Non2xxFailsWithStatusError ==
    \A i \in DOMAIN inv :
        (/\ Answered(i)
         /\ inv[i].variant \in Named
         /\ inv[i].answer.status_code \notin 200..299)
        => /\ inv[i].pc = "failed"
           /\ inv[i].error = StatusErrorFor(i)

\* a required field of the call's argument shape was left out / is empty
FieldMissing(i) ==
    CASE inv[i].tool = "GetSpendingAwardsByAgencyId" ->
            inv[i].args.year = <<>> \/ inv[i].args.agency_id = <<>>
      [] inv[i].tool = "GetAwardInfoByAwardId" ->
            inv[i].args.generated_unique_award_id = <<>>
      [] inv[i].tool = "SearchByKeywords" ->
            \/ inv[i].args.year = <<>>
            \/ IF inv[i].variant = "goostr" THEN inv[i].args.keyword = <<>>
               ELSE inv[i].args.keywords = <<>>
      [] OTHER -> FALSE

FieldEmpty(i) ==
    CASE inv[i].tool = "GetSpendingAwardsByAgencyId" ->
            inv[i].args.year = <<"">> \/ inv[i].args.agency_id = <<"">>
      [] inv[i].tool = "GetAwardInfoByAwardId" ->
            inv[i].args.generated_unique_award_id = <<<<>>>>
      [] inv[i].tool = "SearchByKeywords" ->
            IF inv[i].variant = "goostr" THEN inv[i].args.keyword = <<<<>>>>
            ELSE inv[i].args.keywords = <<<<>>>>
      [] OTHER -> FALSE

RejectedByValidation(i) ==
    /\ inv[i].pc = "failed"
    /\ inv[i].error = RawError("ValidationError")
    /\ inv[i].requests = <<>>
    /\ inv[i].client = 0

\* C2: a call whose required field is missing or empty fails with
\* a ValidationError and the transport helper is never invoked.
C2_MissingOrEmptyRejected ==
    \A i \in DOMAIN inv :
        (inv[i].pc # "idle" /\ (FieldMissing(i) \/ FieldEmpty(i)))
        => RejectedByValidation(i)

\* C3: an invocation that ran the tool and did not complete ends with a
\* structured gateway error (McpError); no other exception leaves the tool.
C3_OnlyGatewayErrors ==
    \A i \in DOMAIN inv :
        (inv[i].pc = "failed" /\ ~FieldMissing(i)) => inv[i].error.exc = "McpError"

\* C4: a refused or timed-out connection fails the invocation with
\* an error whose kind differs from the kind of the error for a non-2xx status.
C4_KindDistinguishes ==
    \A i \in DOMAIN inv :
        Refused(i) =>
            /\ inv[i].pc = "failed"
            /\ inv[i].error.exc = "McpError"
            /\ inv[i].error.code # StatusErrorFor(i).code

\* the call got as far as the helper: arguments valid, request built
Built(i) ==
    /\ ~FieldMissing(i)
    /\ inv[i].tool = "SearchByKeywords" => inv[i].args.year[1] \in 1..9999

\* C5: an invocation whose arguments pass validation and request construction
\* issues exactly one upstream request, whether that request succeeds,
\* returns a non-2xx status or fails in transport; any other issues none.
C5_ExactlyOneRequest ==
    \A i \in DOMAIN inv :
        inv[i].pc # "idle" =>
            Len(inv[i].requests) = IF Built(i) THEN 1 ELSE 0

C5_Witness ==
    \E i \in DOMAIN inv :
        /\ Refused(i)
        /\ inv[i].tool = "GetAgencies"
        /\ inv[i].pc = "failed"
        /\ Len(inv[i].requests) = 1

\* C6: in every variant of the award-detail tool, the id "CONT_AWD_X1" is
\* requested at https://api.usaspending.gov/api/v2/awards/CONT_AWD_X1/.
C6_TrailingSlash ==
    \A i \in DOMAIN inv :
        (/\ inv[i].tool = "GetAwardInfoByAwardId"
         /\ inv[i].variant \in {"usaspending_mcp", "goostr"}
         /\ inv[i].requests # <<>>
         /\ inv[i].args.generated_unique_award_id = <<<<"CONT_AWD_X1">>>>)
        => Str(inv[i].requests[1].url)
             = "https://api.usaspending.gov/api/v2/awards/CONT_AWD_X1/"

\* a year as four digits
YYYY(year) ==
    IF year < 10 THEN "000" \o ToString(year)
    ELSE IF year < 100 THEN "00" \o ToString(year)
    ELSE IF year < 1000 THEN "0" \o ToString(year)
    ELSE ToString(year)

\* C7: SearchByKeywords sends, for every accepted year and whatever the
\* keywords, the one range from YYYY-01-01 to YYYY-12-31 of that year.
C7_CalendarYearRange ==
    \A i \in DOMAIN inv :
        (/\ inv[i].tool = "SearchByKeywords"
         /\ inv[i].variant \in Named
         /\ inv[i].requests # <<>>)
        => inv[i].requests[1].json.filters.time_period
             = <<[start_date |-> YYYY(inv[i].args.year[1]) \o "-01-01",
                  end_date |-> YYYY(inv[i].args.year[1]) \o "-12-31"]>>

\* the KeywordSearchResult of an entry that carries the recipient name only
OnlyNameResult ==
    [kind |-> "model",
     v |-> [n \in 1..Len(KeywordSearchResponseFields) |->
              [k |-> KeywordSearchResponseFields[n].name,
               v |-> IF KeywordSearchResponseFields[n].name = "recipient_name"
                     THEN JStr("ACME") ELSE JNull]]]

\* C8: a results entry that carries only the recipient name maps into a
\* KeywordSearchResult with every other field unset; the invocation completes
\* and returns it.
C8_OnlyRecipientNameMaps ==
    \A i \in DOMAIN inv :
        (/\ Answered(i)
         /\ inv[i].variant = "usaspending_mcp"
         /\ inv[i].tool = "SearchByKeywords"
         /\ inv[i].answer.status_code = 200
         /\ inv[i].answer.body = Body_onlyname)
        => /\ inv[i].pc = "completed"
           /\ inv[i].result = [kind |-> "list", v |-> <<OnlyNameResult>>]

\* the body is an object whose results array has an entry without the
\* recipient name
LacksRecipientName(body) ==
    LET r == json_loads(body)
    IN  /\ r.ok
        /\ r.val.kind = "obj"
        /\ HasKey(r.val.v, "results")
        /\ Get(r.val.v, "results").kind = "arr"
        /\ \E n \in 1..Len(Get(r.val.v, "results").v) :
              LET e == Get(r.val.v, "results").v[n]
              IN  e.kind = "obj" /\ ~HasKey(e.v, "Recipient Name")

\* C9: a results entry without the recipient name fails the invocation with
\* a structured gateway error; no partial sequence is returned.
C9_MissingNameIsGatewayError ==
    \A i \in DOMAIN inv :
        (/\ Answered(i)
         /\ inv[i].variant = "usaspending_mcp"
         /\ inv[i].tool = "SearchByKeywords"
         /\ inv[i].answer.status_code = 200
         /\ LacksRecipientName(inv[i].answer.body))
        => /\ inv[i].pc = "failed"
           /\ inv[i].result = NoResult
           /\ inv[i].error.exc = "McpError"

\* the parsed {"results":[{"agency_id":1}]}
AgenciesJson ==
    JObj(<<[k |-> "results",
            v |-> JArr(<<JObj(<<[k |-> "agency_id", v |-> JNum(1)]>>)>>)]>>)

\* C10: a pass-through tool whose request succeeds with a JSON body returns
\* the parsed JSON as it is; {"results":[{"agency_id":1}]} comes back as
\* that object.
C10_PassThrough ==
    \A i \in DOMAIN inv :
        (/\ Answered(i)
         /\ inv[i].tool \in PassThroughTools
         /\ inv[i].answer.status_code \in 200..299
         /\ json_loads(inv[i].answer.body).ok)
        => /\ inv[i].pc = "completed"
           /\ inv[i].result = json_loads(inv[i].answer.body).val
           /\ inv[i].answer.body = Body_agencies => inv[i].result = AgenciesJson

C10_Witness ==
    \E i \in DOMAIN inv :
        /\ Answered(i)
        /\ inv[i].tool = "GetAgencies"
        /\ inv[i].answer.status_code = 200
        /\ inv[i].answer.body = Body_agencies
        /\ inv[i].result = AgenciesJson

StartsWith(s, p) == Len(s) >= Len(p) /\ Prefix(s, Len(p)) = p

\* C11: GetAwardInfoByAwardId uses every non-empty award id verbatim as one path
\* segment: the URL requested is the fixed prefix
\* https://api.usaspending.gov/api/v2/awards/ followed by the id and "/",
\* never another host or another path of the API.
C11_IdIsOnePathSegment ==
    \A i \in DOMAIN inv :
        (/\ inv[i].tool = "GetAwardInfoByAwardId"
         /\ inv[i].variant \in Named
         /\ inv[i].requests # <<>>
         /\ inv[i].args.generated_unique_award_id[1] # <<>>)
        => /\ StartsWith(inv[i].requests[1].url, BASE_URL)
           /\ inv[i].requests[1].url
                = BASE_URL \o inv[i].args.generated_unique_award_id[1] \o <<"/">>


InFlight(i) == inv[i].pc \in {"awaiting", "ready"}

\* what the invocation's own arguments make it send
OwnRequests(i) == ToolCall(inv[i].variant, inv[i].tool, inv[i].args).requests

\* what the invocation's own request and own upstream answer make it return
OwnOutcome(i) ==
    ToolReturn(inv[i].variant, inv[i].tool,
               client_send(inv[i].requests[Len(inv[i].requests)], inv[i].answer))

C12_OwnState ==
    \A i \in DOMAIN inv :
        /\ inv[i].requests # <<>> => inv[i].requests = OwnRequests(i)
        /\ (Finished(i) /\ inv[i].answer.kind # "none")
             => /\ inv[i].pc = OwnOutcome(i).pc
                /\ inv[i].result = OwnOutcome(i).result
                /\ inv[i].error = OwnOutcome(i).error

C12_Frame ==
    /\ mcp' = mcp
    /\ \A i, j \in DOMAIN inv :
         (i # j /\ inv'[i] # inv[i]) => inv'[j] = inv[j]

\* C12: with invocations running side by side and interleaved at the await in
\* any order, the request an invocation sends is the one its own arguments
\* give and the outcome it returns is the one its own request and its own
\* upstream answer give; a step of one invocation leaves every other
\* invocation as it was, and no step changes the tool registry.
C12_InvocationsIsolated == [](C12_OwnState) /\ [][C12_Frame]_vars

\* two invocations overlapped: j, called first, still holds its answer (a
\* transport failure) while i, called later for another tool, has completed
\* with the result of its own 200 answer
C12_Witness ==
    \E i, j \in DOMAIN inv :
        /\ i # j
        /\ inv[j].pc = "ready"
        /\ inv[j].answer.kind = "error"
        /\ inv[j].tool = "GetAwardInfoByAwardId"
        /\ inv[i].tool = "GetAgencies"
        /\ inv[i].pc = "completed"
        /\ inv[i].answer.status_code = 200
        /\ inv[i].result = AgenciesJson
        /\ \E u, v \in used :
             u.slot = i /\ v.slot = j /\ v.client < u.client

\* C13: every helper call opens a client of its own, sends its one request on
\* it, and has closed it when the call has returned or failed: every open
\* client is that of a call in flight, a call whose request is out has its
\* client open, calls in flight have different clients, no client serves two
\* calls, and once no call is in flight no client is open.
C13_ClientPerCall ==
    /\ clients \subseteq {inv[i].client : i \in {k \in DOMAIN inv : InFlight(k)}}
    /\ \A i \in DOMAIN inv :
         /\ inv[i].pc = "awaiting" => inv[i].client \in clients
         /\ ~InFlight(i) => inv[i].client \notin clients
    /\ \A i, j \in DOMAIN inv :
         (i # j /\ InFlight(i) /\ InFlight(j)) => inv[i].client # inv[j].client
    /\ \A u, v \in used : u.client = v.client => u = v
    /\ Cardinality(used) = opened
    /\ (\A i \in DOMAIN inv : ~InFlight(i)) => clients = {}

\* two calls have completed, one refused in transport and one answered with
\* an error status, each on its own client, and no client is open
C13_Witness ==
    \E i, j \in DOMAIN inv :
        /\ Refused(i)
        /\ Answered(j)
        /\ inv[j].answer.status_code = 500
        /\ \E u, v \in used : u.slot = i /\ v.slot = j /\ u.client # v.client
        /\ \A k \in DOMAIN inv : ~InFlight(k)
        /\ clients = {}

==============================================================================
